---- MODULE Spec2Model ----
(***************************************************************************)
(* Model of the mqtt package: MQTTClient (mqtt/client.py) and MQTTServer   *)
(* (mqtt/server.py), two wrappers around a paho.mqtt.client.Client.        *)
(*                                                                         *)
(* Python strings are sequences of one-character strings.  Python values   *)
(* whose type matters (arguments that may be None, str, dict or list) are  *)
(* records [type, val].                                                    *)
(***************************************************************************)
EXTENDS Integers, Sequences, FiniteSets, TLC

VARIABLES
    client_id_arg,  \* the client_id argument handed to MQTTClient.__init__
    client_id,      \* MQTTClient.client_id
    connected,      \* connected[w]: the wrapper's connected attribute
    sub_topics,     \* sub_topics[w]: the wrapper's sub_topics attribute
    on_message,     \* on_message[w]: the on_message attribute of the wrapped paho client
    link,           \* link[w]: connection of the wrapped paho client to the broker
    queued,         \* queued[w]: subscriptions handed to paho subscribe(), not yet at the broker
    brokerSubs,     \* brokerSubs[w]: subscriptions the broker session of w holds
    lastEvent,      \* lastEvent[w]: most recent of on_connect(rc = 0) / on_disconnect
    lastSet,        \* callback given to the most recent MQTTServer.on_message assignment
    event,          \* the most recent call and what it did
    heap,           \* list objects: heap[1] is the list bound as default of sub_topics
    servers         \* MQTTServer instances constructed so far (SpecShared)

vars == << client_id_arg, client_id, connected, sub_topics, on_message, link,
           queued, brokerSubs, lastEvent, lastSet, event, heap, servers >>

-----------------------------------------------------------------------------
(* Bounds *)

MaxIdLen == 2
MaxServers == 3
MaxSubTopics == 3

-----------------------------------------------------------------------------
(* Python values *)

None == [type |-> "NoneType", val |-> <<>>]
Str(s) == [type |-> "str", val |-> s]
Dict(d) == [type |-> "dict", val |-> d]
List(l) == [type |-> "list", val |-> l]

\* truth value of None, a str, a list (`x or y`, `... if x else ...`)
Truthy(x) == x.type /= "NoneType" /\ Len(x.val) > 0

Range(s) == {s[i] : i \in 1..Len(s)}

SeqsUpTo(S, n) == UNION {[1..k -> S] : k \in 0..n}

\* str.strip(): leading and trailing whitespace removed
RECURSIVE lstrip(_)
lstrip(s) == IF s /= <<>> /\ Head(s) = " " THEN lstrip(Tail(s)) ELSE s

RECURSIVE rstrip(_)
rstrip(s) == IF s /= <<>> /\ s[Len(s)] = " " THEN rstrip(SubSeq(s, 1, Len(s) - 1)) ELSE s

strip(s) == rstrip(lstrip(s))

\* json.dumps of a dict of str to str, d the sequence of its <<key, value>>
\* items in insertion order (keys and values without characters to escape)
Quoted(s) == <<"\"">> \o s \o <<"\"">>

RECURSIVE DumpItems(_)
DumpItems(d) ==
    IF d = <<>> THEN <<>>
    ELSE Quoted(d[1][1]) \o <<":", " ">> \o Quoted(d[1][2])
         \o (IF Len(d) > 1 THEN <<",", " ">> \o DumpItems(Tail(d)) ELSE <<>>)

dumps(d) == <<"{">> \o DumpItems(d) \o <<"}">>

-----------------------------------------------------------------------------
(* Inputs *)

W == {"client", "server"}

Chars == {" ", "a", "/"}
ClientIdArgs == SeqsUpTo(Chars, MaxIdLen)

ClientPrefix == <<"c", "l", "i", "e", "n", "t", "/">>
ClientPlus == ClientPrefix \o <<"+">>
ServerConnect == <<"s", "e", "r", "v", "e", "r", "/", "c", "o", "n", "n", "e", "c", "t">>

\* sub_topics: list[tuple[str, int]] = [('client/+', 0)]
DefaultSubTopics == << <<ClientPlus, 0>> >>

ClientSubTopicsArgs == {None, List(<<>>), List(<< <<ServerConnect, 0>> >>)}

Messages == { Str(<<>>), Str(<<"h", "i">>),
              Dict(<<>>), Dict(<< << <<"k">>, <<"v">> >> >>) }
TopicArgs == {None, Str(<<>>), Str(<<"t">>), Str(<<"a", "/", "b">>)}
Callbacks == {"cb1", "cb2"}
RCs == 0..2

ExtraEntries == { << <<"x">>, 0 >>, << <<"y">>, 1 >> }

NoEvent == [op |-> "none", w |-> "none", message |-> None, topic |-> None,
            issued |-> <<>>, raised |-> FALSE, handler |-> "none", rc |-> -1]

Ev(op, w) == [NoEvent EXCEPT !.op = op, !.w = w]

-----------------------------------------------------------------------------
(* MQTTServer.on_message property (getter) *)

\* The getter builds default_on_message and returns it, whatever the state.
MQTTServer_on_message_getter == "default_on_message"

-----------------------------------------------------------------------------
(* Construction of one MQTTClient and one MQTTServer *)

TypeOK ==
    /\ client_id_arg \in ClientIdArgs
    /\ client_id \in ClientIdArgs
    /\ connected \in [W -> BOOLEAN]
    /\ link \in [W -> {"idle", "connecting", "up", "down"}]
    /\ lastEvent \in [W -> {"none", "on_connect_0", "on_disconnect"}]
    /\ lastSet \in Callbacks \cup {"none"}

MQTTClient_init(arg, subs) ==
    /\ client_id_arg = arg
    /\ client_id = strip(arg)
    /\ sub_topics = [w \in W |-> IF w = "client" THEN subs ELSE List(DefaultSubTopics)]

MQTTServer_init ==
    /\ on_message = [w \in W |-> IF w = "client" THEN "MQTTClient.on_message"
                                 ELSE MQTTServer_on_message_getter]
    /\ connected = [w \in W |-> FALSE]

Init ==
    /\ \E arg \in ClientIdArgs, subs \in ClientSubTopicsArgs : MQTTClient_init(arg, subs)
    /\ MQTTServer_init
    /\ link = [w \in W |-> "idle"]
    /\ queued = [w \in W |-> {}]
    /\ brokerSubs = [w \in W |-> {}]
    /\ lastEvent = [w \in W |-> "none"]
    /\ lastSet = "none"
    /\ event = NoEvent
    /\ heap = << DefaultSubTopics >>
    /\ servers = << >>

-----------------------------------------------------------------------------
(* The wrapped paho client and the broker, as the wrappers drive them *)

\* mqtt_client.connect(ip, port, keepalive) followed by
\* mqtt_client.subscribe(sub_topics) if sub_topics else None
ConnectAndSubscribe(w) ==
    /\ link[w] \in {"idle", "down"}
    /\ link' = [link EXCEPT ![w] = "connecting"]
    /\ queued' = [queued EXCEPT ![w] =
                    IF Truthy(sub_topics[w]) THEN Range(sub_topics[w].val) ELSE {}]
    /\ UNCHANGED brokerSubs

\* The broker answers a connection attempt with result code rc; the attempt
\* is the one connect() started or, after a loss, the paho client's own
\* reconnect.  A new session holds the subscriptions requested on this
\* connection and nothing else (clean session).
Connack(w, rc) ==
    /\ link[w] \in {"connecting", "down"}
    /\ link' = [link EXCEPT ![w] = IF rc = 0 THEN "up" ELSE "down"]
    /\ brokerSubs' = [brokerSubs EXCEPT ![w] = IF rc = 0 THEN queued[w] ELSE {}]
    /\ queued' = [queued EXCEPT ![w] = {}]

\* The connection is lost or closed; the broker drops the session.
ConnectionLost(w) ==
    /\ link[w] /= "idle"
    /\ link' = [link EXCEPT ![w] = "down"]
    /\ brokerSubs' = [brokerSubs EXCEPT ![w] = {}]
    /\ queued' = [queued EXCEPT ![w] = {}]

-----------------------------------------------------------------------------
(* MQTTClient *)

MQTTClient_connect ==
    /\ ConnectAndSubscribe("client")
    /\ event' = Ev("connect", "client")
    /\ UNCHANGED << client_id_arg, client_id, connected, sub_topics, on_message,
                    lastEvent, lastSet, heap, servers >>

MQTTClient_on_connect_any_rc(rc) ==
    /\ Connack("client", rc)
    /\ connected' = [connected EXCEPT !["client"] = TRUE]
    /\ lastEvent' = [lastEvent EXCEPT !["client"] = IF rc = 0 THEN "on_connect_0" ELSE @]
    /\ event' = [Ev("on_connect", "client") EXCEPT !.rc = rc]
    /\ UNCHANGED << client_id_arg, client_id, sub_topics, on_message, lastSet,
                    heap, servers >>

MQTTClient_on_connect(rc) ==
    /\ Connack("client", rc)
    /\ connected' = [connected EXCEPT !["client"] = IF rc = 0 THEN TRUE ELSE @]
    /\ lastEvent' = [lastEvent EXCEPT !["client"] = IF rc = 0 THEN "on_connect_0" ELSE @]
    /\ event' = [Ev("on_connect", "client") EXCEPT !.rc = rc]
    /\ UNCHANGED << client_id_arg, client_id, sub_topics, on_message, lastSet,
                    heap, servers >>

MQTTClient_on_disconnect(rc) ==
    /\ ConnectionLost("client")
    /\ connected' = [connected EXCEPT !["client"] = FALSE]
    /\ lastEvent' = [lastEvent EXCEPT !["client"] = "on_disconnect"]
    /\ event' = [Ev("on_disconnect", "client") EXCEPT !.rc = rc]
    /\ UNCHANGED << client_id_arg, client_id, sub_topics, on_message, lastSet,
                    heap, servers >>

\* A message arrives: the paho client calls its on_message attribute, which
\* __init__ set to the static MQTTClient.on_message (pass).
MQTTClient_on_message ==
    /\ brokerSubs["client"] /= {}
    /\ event' = [Ev("message", "client") EXCEPT !.handler = on_message["client"]]
    /\ UNCHANGED << client_id_arg, client_id, connected, sub_topics, on_message,
                    link, queued, brokerSubs, lastEvent, lastSet, heap, servers >>

\* f"client/{self.client_id}"
DefaultTopic_no_prefix(cid) == cid

DefaultTopic(cid) == ClientPrefix \o cid

\* What publish(message, topic) does on self: the requests it issues on
\* mqtt_client and whether it raises.  self is [client_id, connected].
MQTTClient_publish_no_dumps(self, message, topic) ==
    [issued |-> << [topic |-> IF Truthy(topic) THEN topic.val
                              ELSE DefaultTopic(self.client_id),
                    payload |-> message.val] >>,
     raised |-> FALSE]

MQTTClient_publish_checked(self, message, topic) ==
    IF ~self.connected
    THEN [issued |-> << >>, raised |-> TRUE]
    ELSE [issued |-> << [topic |-> IF Truthy(topic) THEN topic.val
                                   ELSE DefaultTopic(self.client_id),
                         payload |-> IF message.type = "dict" THEN dumps(message.val)
                                     ELSE message.val] >>,
          raised |-> FALSE]

MQTTClient_publish_outcome(self, message, topic) ==
    [issued |-> << [topic |-> IF Truthy(topic) THEN topic.val
                              ELSE DefaultTopic(self.client_id),
                    payload |-> IF message.type = "dict" THEN dumps(message.val)
                                ELSE message.val] >>,
     raised |-> FALSE]

MQTTClient_publish(message, topic) ==
    LET out == MQTTClient_publish_outcome(
                   [client_id |-> client_id, connected |-> connected["client"]],
                   message, topic)
    IN  /\ event' = [Ev("publish", "client") EXCEPT !.message = message,
                        !.topic = topic, !.issued = out.issued, !.raised = out.raised]
        /\ UNCHANGED << client_id_arg, client_id, connected, sub_topics, on_message,
                        link, queued, brokerSubs, lastEvent, lastSet, heap, servers >>

-----------------------------------------------------------------------------
(* MQTTServer *)

MQTTServer_connect ==
    /\ ConnectAndSubscribe("server")
    /\ event' = Ev("connect", "server")
    /\ UNCHANGED << client_id_arg, client_id, connected, sub_topics, on_message,
                    lastEvent, lastSet, heap, servers >>

MQTTServer_on_connect(rc) ==
    /\ Connack("server", rc)
    /\ connected' = [connected EXCEPT !["server"] = IF rc = 0 THEN TRUE ELSE @]
    /\ lastEvent' = [lastEvent EXCEPT !["server"] = IF rc = 0 THEN "on_connect_0" ELSE @]
    /\ event' = [Ev("on_connect", "server") EXCEPT !.rc = rc]
    /\ UNCHANGED << client_id_arg, client_id, sub_topics, on_message, lastSet,
                    heap, servers >>

MQTTServer_on_disconnect(rc) ==
    /\ ConnectionLost("server")
    /\ connected' = [connected EXCEPT !["server"] = FALSE]
    /\ lastEvent' = [lastEvent EXCEPT !["server"] = "on_disconnect"]
    /\ event' = [Ev("on_disconnect", "server") EXCEPT !.rc = rc]
    /\ UNCHANGED << client_id_arg, client_id, sub_topics, on_message, lastSet,
                    heap, servers >>

\* Reading server.on_message
MQTTServer_on_message_get ==
    /\ event' = [Ev("get_on_message", "server") EXCEPT
                    !.handler = MQTTServer_on_message_getter]
    /\ UNCHANGED << client_id_arg, client_id, connected, sub_topics, on_message,
                    link, queued, brokerSubs, lastEvent, lastSet, heap, servers >>

\* server.on_message = callback
MQTTServer_on_message_setter_lost(callback) ==
    /\ lastSet' = callback
    /\ event' = [Ev("set_on_message", "server") EXCEPT !.handler = callback]
    /\ UNCHANGED << client_id_arg, client_id, connected, sub_topics, on_message,
                    link, queued, brokerSubs, lastEvent, heap, servers >>

MQTTServer_on_message_setter(callback) ==
    /\ on_message' = [on_message EXCEPT !["server"] = callback]
    /\ lastSet' = callback
    /\ event' = [Ev("set_on_message", "server") EXCEPT !.handler = callback]
    /\ UNCHANGED << client_id_arg, client_id, connected, sub_topics,
                    link, queued, brokerSubs, lastEvent, heap, servers >>

\* A message arrives: the paho client calls its on_message attribute.
MQTTServer_message ==
    /\ brokerSubs["server"] /= {}
    /\ event' = [Ev("message", "server") EXCEPT !.handler = on_message["server"]]
    /\ UNCHANGED << client_id_arg, client_id, connected, sub_topics, on_message,
                    link, queued, brokerSubs, lastEvent, lastSet, heap, servers >>

\* publish(message, topic): pass
MQTTServer_publish(message, topic) ==
    /\ event' = [Ev("publish", "server") EXCEPT !.message = message, !.topic = topic]
    /\ UNCHANGED << client_id_arg, client_id, connected, sub_topics, on_message,
                    link, queued, brokerSubs, lastEvent, lastSet, heap, servers >>

-----------------------------------------------------------------------------

Next ==
    \/ MQTTClient_connect
    \/ \E rc \in RCs : MQTTClient_on_connect(rc)
    \/ \E rc \in RCs : MQTTClient_on_disconnect(rc)
    \/ MQTTClient_on_message
    \/ \E m \in Messages, t \in TopicArgs : MQTTClient_publish(m, t)
    \/ MQTTServer_connect
    \/ \E rc \in RCs : MQTTServer_on_connect(rc)
    \/ \E rc \in RCs : MQTTServer_on_disconnect(rc)
    \/ MQTTServer_on_message_get
    \/ \E cb \in Callbacks : MQTTServer_on_message_setter(cb)
    \/ MQTTServer_message
    \/ \E m \in Messages, t \in TopicArgs : MQTTServer_publish(m, t)

Spec == Init /\ [][Next]_vars

-----------------------------------------------------------------------------
(* Several MQTTServer instances and the list objects their sub_topics name *)

\* An instance is [sub_topics, defaulted, mutated]: sub_topics is the index in
\* heap of the list object the attribute refers to, defaulted tells that the
\* constructor got no sub_topics argument, mutated that the list was changed
\* through this instance.

\* MQTTServer(): self.sub_topics = sub_topics, the parameter being bound to
\* the one list object created when the function was defined.
MQTTServer_init_default ==
    /\ Len(servers) < MaxServers
    /\ servers' = Append(servers, [sub_topics |-> 1, defaulted |-> TRUE, mutated |-> FALSE])
    /\ UNCHANGED << client_id_arg, client_id, connected, sub_topics, on_message, link,
                    queued, brokerSubs, lastEvent, lastSet, event, heap >>

\* MQTTServer(sub_topics=l) with a list l the caller has just built
MQTTServer_init_with(l) ==
    /\ Len(servers) < MaxServers
    /\ heap' = Append(heap, l)
    /\ servers' = Append(servers, [sub_topics |-> Len(heap) + 1, defaulted |-> FALSE,
                                   mutated |-> FALSE])
    /\ UNCHANGED << client_id_arg, client_id, connected, sub_topics, on_message, link,
                    queued, brokerSubs, lastEvent, lastSet, event >>

\* servers[i].sub_topics.append(entry)
SubTopicsAppend(i, entry) ==
    /\ Len(heap[servers[i].sub_topics]) < MaxSubTopics
    /\ heap' = [heap EXCEPT ![servers[i].sub_topics] = Append(@, entry)]
    /\ servers' = [servers EXCEPT ![i].mutated = TRUE]
    /\ UNCHANGED << client_id_arg, client_id, connected, sub_topics, on_message, link,
                    queued, brokerSubs, lastEvent, lastSet, event >>

InitShared ==
    /\ MQTTClient_init(<< >>, None)
    /\ MQTTServer_init
    /\ link = [w \in W |-> "idle"]
    /\ queued = [w \in W |-> {}]
    /\ brokerSubs = [w \in W |-> {}]
    /\ lastEvent = [w \in W |-> "none"]
    /\ lastSet = "none"
    /\ event = NoEvent
    /\ heap = << DefaultSubTopics >>
    /\ servers = << >>

NextShared ==
    \/ MQTTServer_init_default
    \/ \E l \in {<< >>, << <<ServerConnect, 0>> >>} : MQTTServer_init_with(l)
    \/ \E i \in 1..Len(servers), e \in ExtraEntries : SubTopicsAppend(i, e)

SpecShared == InitShared /\ [][NextShared]_vars

-----------------------------------------------------------------------------
(* Topic matching, as the broker does it *)

RECURSIVE Split(_)
Split(s) ==
    IF \A i \in 1..Len(s) : s[i] /= "/" THEN << s >>
    ELSE LET i == CHOOSE k \in 1..Len(s) : s[k] = "/" /\ \A j \in 1..(k - 1) : s[j] /= "/"
         IN  << SubSeq(s, 1, i - 1) >> \o Split(SubSeq(s, i + 1, Len(s)))

RECURSIVE MatchSegments(_, _)
MatchSegments(f, t) ==
    IF f = << >> THEN t = << >>
    ELSE IF Head(f) = << "#" >> THEN Len(f) = 1
    ELSE IF t = << >> THEN FALSE
    ELSE (Head(f) = << "+" >> \/ Head(f) = Head(t)) /\ MatchSegments(Tail(f), Tail(t))

Matches(filter, topic) ==
    /\ ~(topic /= << >> /\ Head(topic) = "$" /\ Head(Split(filter)) \in {<< "+" >>, << "#" >>})
    /\ MatchSegments(Split(filter), Split(topic))

-----------------------------------------------------------------------------
(* Properties *)

ClientPublished == event.op = "publish" /\ event.w = "client"
ServerPublished == event.op = "publish" /\ event.w = "server"

\* s is arg without its leading and trailing blanks
IsStripOf(s, arg) ==
    /\ \E i \in 0..Len(arg), j \in 0..Len(arg) :
          /\ i <= j
          /\ s = SubSeq(arg, i + 1, j)
          /\ \A k \in 1..i : arg[k] = " "
          /\ \A k \in (j + 1)..Len(arg) : arg[k] = " "
    /\ s = << >> \/ (s[1] /= " " /\ s[Len(s)] /= " ")

\* C1: for both wrappers, connected is True exactly when the most recent of
\* the events {on_connect with rc = 0, on_disconnect} was an on_connect with
\* rc = 0; in particular it is False after construction.
C1_ConnectedTracksLastEvent ==
    \A w \in W : connected[w] <=> lastEvent[w] = "on_connect_0"

C1_Witness ==
    /\ connected["client"] /\ lastEvent["client"] = "on_connect_0"
    /\ ~connected["server"] /\ lastEvent["server"] = "on_disconnect"
    /\ event.op = "on_connect" /\ event.w = "server" /\ event.rc /= 0

\* C2: every call MQTTServer.publish(message, topic) results in exactly one
\* publish request on the underlying client, carrying that message and that
\* topic.
C2_ServerPublishIssuesOneRequest ==
    ServerPublished =>
        /\ Len(event.issued) = 1
        /\ Truthy(event.topic) => event.issued[1].topic = event.topic.val
        /\ event.issued[1].payload \in {event.message.val, dumps(event.message.val)}

\* C3: every call MQTTClient.publish(message, topic) issues exactly one
\* publish request; its topic is the given topic when one is given (a
\* non-empty string) and otherwise "client/" followed by the stripped
\* constructor argument; its payload is the JSON text of a dict message and
\* a str message itself.
C3_ClientPublishRequest ==
    /\ dumps(<< << <<"k">>, <<"v">> >> >>)
         = << "{", "\"", "k", "\"", ":", " ", "\"", "v", "\"", "}" >>
    /\ ClientPublished =>
        /\ Len(event.issued) = 1
        /\ ~event.raised
        /\ IF Truthy(event.topic)
           THEN event.issued[1].topic = event.topic.val
           ELSE \E s \in ClientIdArgs :
                   /\ IsStripOf(s, client_id_arg)
                   /\ event.issued[1].topic = ClientPrefix \o s
        /\ event.message.type = "dict" => event.issued[1].payload = dumps(event.message.val)
        /\ event.message.type = "str" => event.issued[1].payload = event.message.val

C3_Witness ==
    /\ ClientPublished
    /\ event.topic = None
    /\ event.message = Dict(<< << <<"k">>, <<"v">> >> >>)
    /\ client_id_arg = << " ", "a" >>
    /\ event.issued[1].topic = ClientPrefix \o << "a" >>

\* C4: a message the MQTTServer's underlying client receives is handed to
\* the callback of the most recent `server.on_message = cb`, and to the
\* default printing handler when there was no such assignment yet.
C4_MessageGoesToRegisteredHandler ==
    event.op = "message" /\ event.w = "server" =>
        event.handler = IF lastSet = "none" THEN "default_on_message" ELSE lastSet

C4_Witness ==
    /\ event.op = "message" /\ event.w = "server"
    /\ lastSet = "cb2"
    /\ event.handler = "cb2"

\* C5: reading server.on_message yields the handler the underlying client
\* currently invokes for an incoming message.
C5_GetterReturnsInstalledHandler ==
    event.op = "get_on_message" => event.handler = on_message["server"]

\* C6: whenever connected is True, the broker session of the wrapper holds a
\* subscription for every entry of sub_topics.
C6_SubscribedWhileConnected ==
    \A w \in W :
        connected[w] /\ Truthy(sub_topics[w]) =>
            Range(sub_topics[w].val) \subseteq brokerSubs[w]

\* C7: the sub_topics of an MQTTServer constructed without a sub_topics
\* argument equals [('client/+', 0)] as long as it was not changed through
\* that instance, whatever was done to other instances before or after its
\* construction.
C7_DefaultSubTopicsPerInstance ==
    \A j \in 1..Len(servers) :
        servers[j].defaulted /\ ~servers[j].mutated =>
            heap[servers[j].sub_topics] = DefaultSubTopics

\* C8 as stated: MQTTClient.publish called while connected is False signals
\* an error to the caller.
C8_PublishWhileDisconnectedRaises ==
    ClientPublished /\ ~connected["client"] => event.raised

\* C8 amended: MQTTClient.publish called while connected is False raises
\* nothing and issues its one publish request on the underlying client.
C8_PublishWhileDisconnectedForwarded ==
    ClientPublished /\ ~connected["client"] =>
        ~event.raised /\ Len(event.issued) = 1

C8_Witness ==
    /\ ClientPublished
    /\ ~connected["client"]
    /\ lastEvent["client"] = "on_disconnect"
    /\ Len(event.issued) = 1

HasTwoClientSegments(topic) ==
    /\ Len(Split(topic)) = 2
    /\ Split(topic)[1] = << "c", "l", "i", "e", "n", "t" >>

\* C9 as stated: for every client_id, the topic of a publish without a topic
\* has exactly two segments, the first being "client", and 'client/+'
\* matches it.
C9_DefaultTopicMatchesClientPlus ==
    ClientPublished /\ ~Truthy(event.topic) =>
        /\ HasTwoClientSegments(event.issued[1].topic)
        /\ Matches(ClientPlus, event.issued[1].topic)

\* C9 amended: the topic of a publish without a topic has exactly two
\* segments, the first being "client", and is matched by 'client/+', exactly
\* when the stripped client_id contains no '/'.
C9_DefaultTopicMatchesIffNoSlash ==
    ClientPublished /\ ~Truthy(event.topic) =>
        /\ HasTwoClientSegments(event.issued[1].topic) <=> "/" \notin Range(client_id)
        /\ Matches(ClientPlus, event.issued[1].topic) <=> "/" \notin Range(client_id)

C9_Witness ==
    /\ ClientPublished
    /\ event.topic = None
    /\ client_id = << "a", "/" >>
    /\ ~Matches(ClientPlus, event.issued[1].topic)

====
